---- MODULE Spec2Model ----
(***************************************************************************)
(* Model of the ahrefs-mcp-bridge service: six versions of one HTTP bridge *)
(* (src/server.js holds two, src/unnamed/part_000 three, part_001 one).    *)
(*                                                                         *)
(*   variant "A"  src/server.js 1-301        cached MCP client,            *)
(*                                           recommendLinks                *)
(*   variant "B"  src/server.js 303-582      three-tool chain,             *)
(*                                           normalizeTarget, packageFromRD*)
(*   variant "C"  src/unnamed/part_000 1-275   two-tool chain,             *)
(*                                           normalizeTarget, packageFromRD*)
(*   variant "D"  src/unnamed/part_000 277-565 parseTarget,                *)
(*                                           enforceScopeRule,             *)
(*                                           dripfeedFromRD                *)
(*   variant "E"  src/unnamed/part_000 567-823 resolveTargetAndScope,      *)
(*                                           recommendPackageFromRD,       *)
(*                                           dripfeedIfOversizedOrder      *)
(*   variant "F"  src/unnamed/part_001       recommendLinksFromRD          *)
(*                                                                         *)
(* Strings are sequences of one-character strings, so that trimming,       *)
(* prefix tests, regular-expression replacements and URL parsing are       *)
(* computed character by character.  JavaScript numbers are records        *)
(* [k, v]: k = "num" carries the integer v, and k = "nan", "inf", "ninf"   *)
(* are NaN, +Infinity and -Infinity; k = "null" is null/undefined.         *)
(***************************************************************************)
EXTENDS Integers, Sequences, FiniteSets, TLC

(***************************************************************************)
(* JavaScript values                                                       *)
(***************************************************************************)
Num(n) == [k |-> "num", v |-> n]
NaN == [k |-> "nan", v |-> 0]
PosInf == [k |-> "inf", v |-> 0]
NegInf == [k |-> "ninf", v |-> 0]
JsNull == [k |-> "null", v |-> 0]

\* x == null (true of null and undefined only)
IsNullish(x) == x.k = "null"

\* Number.isNaN(x)
IsNaN(x) == x.k = "nan"

\* a <= n for a number a and an integer literal n: false whenever a is NaN
LeqLit(a, n) ==
    CASE a.k = "num" -> a.v <= n
      [] a.k = "ninf" -> TRUE
      [] OTHER -> FALSE

\* a < n for a number a and an integer literal n
LtLit(a, n) ==
    CASE a.k = "num" -> a.v < n
      [] a.k = "ninf" -> TRUE
      [] OTHER -> FALSE

\* a > n for a number a and an integer n
GtLit(a, n) ==
    CASE a.k = "num" -> a.v > n
      [] a.k = "inf" -> TRUE
      [] OTHER -> FALSE

\* !x for a number-or-null x: true of null, 0 and NaN
IsFalsyNumber(x) == x.k = "null" \/ x.k = "nan" \/ (x.k = "num" /\ x.v = 0)

(***************************************************************************)
(* Strings as character sequences                                          *)
(***************************************************************************)
IsSpace(c) == c = " "

RECURSIVE TrimLeft(_)
TrimLeft(s) ==
    IF s # <<>> /\ IsSpace(Head(s)) THEN TrimLeft(Tail(s)) ELSE s

RECURSIVE TrimRight(_)
TrimRight(s) ==
    IF s # <<>> /\ IsSpace(s[Len(s)]) THEN TrimRight(SubSeq(s, 1, Len(s) - 1)) ELSE s

\* String.prototype.trim
Trim(s) == TrimRight(TrimLeft(s))

\* String.prototype.startsWith
StartsWith(s, p) == Len(s) >= Len(p) /\ SubSeq(s, 1, Len(p)) = p

Digits == {"0", "1", "2", "3", "4", "5", "6", "7", "8", "9"}

DigitVal(c) ==
    CASE c = "0" -> 0 [] c = "1" -> 1 [] c = "2" -> 2 [] c = "3" -> 3
      [] c = "4" -> 4 [] c = "5" -> 5 [] c = "6" -> 6 [] c = "7" -> 7
      [] c = "8" -> 8 [] c = "9" -> 9

RECURSIVE DecimalValue(_)
DecimalValue(s) ==
    IF s = <<>> THEN 0 ELSE 10 * DecimalValue(SubSeq(s, 1, Len(s) - 1)) + DigitVal(s[Len(s)])

AllDigits(s) == s # <<>> /\ \A i \in 1..Len(s) : s[i] \in Digits

\* Number(s) for a string s: white space is trimmed, the empty string is 0, an
\* optionally signed run of decimal digits is its value, anything else is NaN.
StrToNumber(s) ==
    LET t == Trim(s) IN
    CASE t = <<>> -> Num(0)
      [] AllDigits(t) -> Num(DecimalValue(t))
      [] Head(t) = "-" /\ AllDigits(Tail(t)) -> Num(0 - DecimalValue(Tail(t)))
      [] Head(t) = "+" /\ AllDigits(Tail(t)) -> Num(DecimalValue(Tail(t)))
      [] OTHER -> NaN

\* A query parameter: absent (undefined) or a string.
QAbsent == [k |-> "absent", s |-> <<>>]
QStr(s) == [k |-> "str", s |-> s]

\* raw ? Number(raw) : null   with raw = req.query.<name>?.toString()
NumberFromQuery(q) ==
    IF q.k = "str" /\ q.s # <<>> THEN StrToNumber(q.s) ELSE JsNull

(***************************************************************************)
(* Recommendation: tier functions                                          *)
(***************************************************************************)
\* a plausible slip in the tier literals: min and max exchanged
Tier_swapped(lo, hi) == [min |-> hi, max |-> lo]

Tier(lo, hi) == [min |-> lo, max |-> hi]

\* a plausible slip in recommendLinks: the bounds taken as inclusive
recommendLinks_inclusive(rd) ==
    CASE LeqLit(rd, 20) -> Tier(5, 10)
      [] LeqLit(rd, 50) -> Tier(10, 20)
      [] LeqLit(rd, 200) -> Tier(20, 35)
      [] OTHER -> Tier(35, 50)

\* variants A and F: four coarse tiers
recommendLinks(rd) ==
    CASE LtLit(rd, 20) -> Tier(5, 10)
      [] LtLit(rd, 50) -> Tier(10, 20)
      [] LtLit(rd, 200) -> Tier(20, 35)
      [] OTHER -> Tier(35, 50)

recommendLinksFromRD(rd) ==
    CASE LtLit(rd, 20) -> Tier(5, 10)
      [] LtLit(rd, 50) -> Tier(10, 20)
      [] LtLit(rd, 200) -> Tier(20, 35)
      [] OTHER -> Tier(35, 50)

\* a plausible slip in packageFromRD: the first bound taken as exclusive
packageFromRD_exclusive(rd) ==
    CASE LtLit(rd, 10) -> Tier(5, 5)
      [] LeqLit(rd, 20) -> Tier(10, 10)
      [] LeqLit(rd, 29) -> Tier(10, 10)
      [] LeqLit(rd, 80) -> Tier(15, 15)
      [] LeqLit(rd, 120) -> Tier(20, 20)
      [] LeqLit(rd, 200) -> Tier(25, 25)
      [] OTHER -> Tier(25, 50)

\* variant B
packageFromRD(rd) ==
    CASE LeqLit(rd, 10) -> Tier(5, 5)
      [] LeqLit(rd, 20) -> Tier(10, 10)
      [] LeqLit(rd, 29) -> Tier(10, 10)
      [] LeqLit(rd, 80) -> Tier(15, 15)
      [] LeqLit(rd, 120) -> Tier(20, 20)
      [] LeqLit(rd, 200) -> Tier(25, 25)
      [] OTHER -> Tier(25, 50)

\* variant C: the same text as variant B's
packageFromRD_C(rd) ==
    CASE LeqLit(rd, 10) -> Tier(5, 5)
      [] LeqLit(rd, 20) -> Tier(10, 10)
      [] LeqLit(rd, 29) -> Tier(10, 10)
      [] LeqLit(rd, 80) -> Tier(15, 15)
      [] LeqLit(rd, 120) -> Tier(20, 20)
      [] LeqLit(rd, 200) -> Tier(25, 25)
      [] OTHER -> Tier(25, 50)

\* variant D with the 21-29 branch of variants B and C put in
packageFromRD_D_folded(rdLive) ==
    LET rd == rdLive IN
    CASE LeqLit(rd, 10) -> Tier(5, 5)
      [] LeqLit(rd, 20) -> Tier(10, 10)
      [] LeqLit(rd, 29) -> Tier(10, 10)
      [] LeqLit(rd, 80) -> Tier(15, 15)
      [] LeqLit(rd, 120) -> Tier(20, 20)
      [] LeqLit(rd, 200) -> Tier(25, 25)
      [] OTHER -> Tier(25, 50)

\* variant D: no 21-29 branch, the 30-80 tier reaches down to 21
packageFromRD_D(rdLive) ==
    LET rd == rdLive IN
    CASE LeqLit(rd, 10) -> Tier(5, 5)
      [] LeqLit(rd, 20) -> Tier(10, 10)
      [] LeqLit(rd, 80) -> Tier(15, 15)
      [] LeqLit(rd, 120) -> Tier(20, 20)
      [] LeqLit(rd, 200) -> Tier(25, 25)
      [] OTHER -> Tier(25, 50)

\* a plausible slip in recommendPackageFromRD: the results of two tiers exchanged
recommendPackageFromRD_exchanged(rdLive) ==
    CASE LeqLit(rdLive, 10) -> Tier(5, 5)
      [] LeqLit(rdLive, 20) -> Tier(10, 10)
      [] LtLit(rdLive, 30) -> Tier(10, 10)
      [] LeqLit(rdLive, 80) -> Tier(20, 20)
      [] LeqLit(rdLive, 120) -> Tier(15, 15)
      [] LeqLit(rdLive, 200) -> Tier(25, 25)
      [] OTHER -> Tier(25, 50)

\* variant E
recommendPackageFromRD(rdLive) ==
    CASE LeqLit(rdLive, 10) -> Tier(5, 5)
      [] LeqLit(rdLive, 20) -> Tier(10, 10)
      [] LtLit(rdLive, 30) -> Tier(10, 10)
      [] LeqLit(rdLive, 80) -> Tier(15, 15)
      [] LeqLit(rdLive, 120) -> Tier(20, 20)
      [] LeqLit(rdLive, 200) -> Tier(25, 25)
      [] OTHER -> Tier(25, 50)

(***************************************************************************)
(* Recommendation: dripfeed decisions.  rate is "none" where the code      *)
(* returns no rate field.                                                  *)
(***************************************************************************)
Drip(on, rate) == [enabled |-> on, rate |-> rate]
NoDrip == Drip(FALSE, "none")

\* a plausible slip in the inline rule: the RD bound taken as exclusive
dripfeedInline_exclusive(rdForPackage, requestedLinks, pkg) ==
    IF ~IsNullish(requestedLinks) /\ ~IsNaN(requestedLinks)
       /\ LtLit(rdForPackage, 20) /\ GtLit(requestedLinks, pkg.max)
    THEN Drip(TRUE, "1 link every 2 days")
    ELSE NoDrip

\* variants B and C: the inline rule of the /recommend-links handler
dripfeedInline(rdForPackage, requestedLinks, pkg) ==
    IF ~IsNullish(requestedLinks) /\ ~IsNaN(requestedLinks)
       /\ LeqLit(rdForPackage, 20) /\ GtLit(requestedLinks, pkg.max)
    THEN Drip(TRUE, "1 link every 2 days")
    ELSE NoDrip

dripfeedInline_C(rd_used, requestedLinks, pkg) ==
    IF ~IsNullish(requestedLinks) /\ ~IsNaN(requestedLinks)
       /\ LeqLit(rd_used, 20) /\ GtLit(requestedLinks, pkg.max)
    THEN Drip(TRUE, "1 link every 2 days")
    ELSE NoDrip

\* variant D: always enabled, the rate alone depends on RD
dripfeedFromRD(rdLive) ==
    CASE LeqLit(rdLive, 20) -> Drip(TRUE, "1 link every 2 days")
      [] LeqLit(rdLive, 100) -> Drip(TRUE, "1 link per day")
      [] OTHER -> Drip(TRUE, "2-3 links per day")

\* a plausible slip in dripfeedIfOversizedOrder: the second branch left out, so
\* that only a low RD enables dripfeed
dripfeedIfOversizedOrder_lowOnly(rdLive, clientRequestedLinks) ==
    IF IsFalsyNumber(clientRequestedLinks) THEN NoDrip
    ELSE LET rec == recommendPackageFromRD(rdLive)
             oversized == GtLit(clientRequestedLinks, rec.max)
         IN CASE LeqLit(rdLive, 20) /\ oversized -> Drip(TRUE, "1 link every 2 days")
              [] OTHER -> NoDrip

\* variant E
dripfeedIfOversizedOrder(rdLive, clientRequestedLinks) ==
    IF IsFalsyNumber(clientRequestedLinks) THEN NoDrip
    ELSE LET rec == recommendPackageFromRD(rdLive)
             oversized == GtLit(clientRequestedLinks, rec.max)
         IN CASE LeqLit(rdLive, 20) /\ oversized -> Drip(TRUE, "1 link every 2 days")
              [] oversized -> Drip(TRUE, "1 link every 2 days")
              [] OTHER -> NoDrip

\* The recommendation step of each variant's handler: the tier and the dripfeed
\* decision it puts in the response for RD value rd and the raw links parameter q.
Recommend(v, rd, q) ==
    CASE v = "A" -> [tier |-> recommendLinks(rd), dripfeed |-> NoDrip]
      [] v = "B" ->
            [tier |-> packageFromRD(rd),
             dripfeed |-> dripfeedInline(rd, NumberFromQuery(q), packageFromRD(rd))]
      [] v = "C" ->
            [tier |-> packageFromRD_C(rd),
             dripfeed |-> dripfeedInline_C(rd, NumberFromQuery(q), packageFromRD_C(rd))]
      [] v = "D" ->
            [tier |-> packageFromRD_D(rd), dripfeed |-> dripfeedFromRD(rd)]
      [] v = "E" ->
            [tier |-> recommendPackageFromRD(rd),
             dripfeed |-> dripfeedIfOversizedOrder(rd, NumberFromQuery(q))]
      [] v = "F" -> [tier |-> recommendLinksFromRD(rd), dripfeed |-> NoDrip]

(***************************************************************************)
(* URL parsing: what `new URL(s)` does for the strings the resolvers pass  *)
(* to it.  Every resolver passes either the empty string or a string that  *)
(* starts with "http://" or "https://" (lower case), so only these two     *)
(* special schemes are parsed; any other string has no scheme the model    *)
(* knows and is a parse failure, as the empty string is.  The host has no  *)
(* credentials, port, digits or percent signs (the inputs have none).      *)
(***************************************************************************)
S_http == <<"h", "t", "t", "p", ":", "/", "/">>
S_https == <<"h", "t", "t", "p", "s", ":", "/", "/">>
S_www == <<"w", "w", "w", ".">>

Upper == <<"A", "B", "C", "D", "E", "F", "G", "H", "I", "J", "K", "L", "M",
           "N", "O", "P", "Q", "R", "S", "T", "U", "V", "W", "X", "Y", "Z">>
Lower == <<"a", "b", "c", "d", "e", "f", "g", "h", "i", "j", "k", "l", "m",
           "n", "o", "p", "q", "r", "s", "t", "u", "v", "w", "x", "y", "z">>

ToLowerChar(c) ==
    IF \E i \in 1..Len(Upper) : Upper[i] = c
    THEN Lower[CHOOSE i \in 1..Len(Upper) : Upper[i] = c]
    ELSE c

ToLower(s) == [i \in 1..Len(s) |-> ToLowerChar(s[i])]

\* the longest prefix of s holding none of the characters of stop
RECURSIVE TakeUntil(_, _)
TakeUntil(s, stop) ==
    IF s = <<>> \/ Head(s) \in stop THEN <<>> ELSE <<Head(s)>> \o TakeUntil(Tail(s), stop)

DropN(s, n) == SubSeq(s, n + 1, Len(s))

RECURSIVE SkipSlashes(_)
SkipSlashes(s) == IF s # <<>> /\ Head(s) = "/" THEN SkipSlashes(Tail(s)) ELSE s

\* the percent-encoding of the one character of the inputs that path and query encode
RECURSIVE PercentEncode(_)
PercentEncode(s) ==
    IF s = <<>> THEN <<>>
    ELSE (IF Head(s) = " " THEN <<"%", "2", "0">> ELSE <<Head(s)>>) \o PercentEncode(Tail(s))

\* s split at every "/": n slashes give n + 1 pieces
RECURSIVE SplitSlash(_)
SplitSlash(s) ==
    LET first == TakeUntil(s, {"/"}) IN
    IF Len(first) = Len(s) THEN <<first>>
    ELSE <<first>> \o SplitSlash(DropN(s, Len(first) + 1))

\* the path state of the URL parser: "." and ".." segments are resolved, a dot
\* segment in last place leaves an empty segment
RECURSIVE PathSegments(_, _)
PathSegments(pieces, acc) ==
    IF pieces = <<>> THEN acc
    ELSE LET b == Head(pieces)
             last == Len(pieces) = 1
             popped == IF acc = <<>> THEN acc ELSE SubSeq(acc, 1, Len(acc) - 1)
         IN CASE b = <<".", ".">> ->
                    PathSegments(Tail(pieces), IF last THEN Append(popped, <<>>) ELSE popped)
              [] b = <<".">> ->
                    PathSegments(Tail(pieces), IF last THEN Append(acc, <<>>) ELSE acc)
              [] OTHER -> PathSegments(Tail(pieces), Append(acc, PercentEncode(b)))

RECURSIVE JoinPath(_)
JoinPath(segs) ==
    IF segs = <<>> THEN <<>> ELSE <<"/">> \o Head(segs) \o JoinPath(Tail(segs))

\* pathname of a special URL whose input path text is p ("" or "/...")
PathName(p) ==
    IF p = <<>> THEN <<"/">> ELSE JoinPath(PathSegments(SplitSlash(Tail(p)), <<>>))

ForbiddenHostChars == {" ", "%", "<", ">", "[", "]", "^", "|", "@", ":"}

UrlFailure ==
    [ok |-> FALSE, protocol |-> <<>>, hostname |-> <<>>, pathname |-> <<>>,
     hasQuery |-> FALSE, query |-> <<>>, hasFragment |-> FALSE, fragment |-> <<>>]

\* The states of the URL parser after the scheme of a special URL; u is the URL
\* built so far, rest the input still to read.
FragmentState(u, rest) ==
    IF rest # <<>> /\ Head(rest) = "#"
    THEN [u EXCEPT !.hasFragment = TRUE, !.fragment = PercentEncode(Tail(rest))]
    ELSE u

QueryState(u, rest) ==
    IF rest # <<>> /\ Head(rest) = "?"
    THEN LET query == TakeUntil(Tail(rest), {"#"}) IN
         FragmentState([u EXCEPT !.hasQuery = TRUE, !.query = PercentEncode(query)],
                       DropN(rest, Len(query) + 1))
    ELSE FragmentState(u, rest)

PathState(u, rest) ==
    LET path == TakeUntil(rest, {"?", "#"}) IN
    QueryState([u EXCEPT !.pathname = PathName(path)], DropN(rest, Len(path)))

HostState(protocol, rest) ==
    LET host == TakeUntil(rest, {"/", "?", "#"}) IN
    IF host = <<>> \/ \E i \in 1..Len(host) : host[i] \in ForbiddenHostChars
    THEN UrlFailure
    ELSE PathState([UrlFailure EXCEPT !.ok = TRUE, !.protocol = protocol,
                                      !.hostname = ToLower(host)],
                   DropN(rest, Len(host)))

ParseSpecial(protocol, afterScheme) == HostState(protocol, SkipSlashes(afterScheme))

ParseTrimmed(t) ==
    CASE StartsWith(t, S_https) -> ParseSpecial(<<"h", "t", "t", "p", "s", ":">>, DropN(t, 6))
      [] StartsWith(t, S_http) -> ParseSpecial(<<"h", "t", "t", "p", ":">>, DropN(t, 5))
      [] OTHER -> UrlFailure

\* new URL(s): ok = FALSE where the constructor throws
ParseURL(s) == ParseTrimmed(Trim(s))

\* u.search: "" for an absent or empty query
UrlSearch(u) == IF u.hasQuery /\ u.query # <<>> THEN <<"?">> \o u.query ELSE <<>>

\* u.toString() / u.href
UrlHref(u) ==
    u.protocol \o <<"/", "/">> \o u.hostname \o u.pathname
    \o (IF u.hasQuery THEN <<"?">> \o u.query ELSE <<>>)
    \o (IF u.hasFragment THEN <<"#">> \o u.fragment ELSE <<>>)

\* a plausible slip in the removal of "www.": the first four characters dropped
\* without testing for the prefix
StripWww_always(s) == DropN(s, 4)

\* s.replace(/^www\./, "")
StripWww(s) == IF StartsWith(s, S_www) THEN DropN(s, 4) ELSE s

\* s.replace(/\/+$/g, "")
RECURSIVE StripTrailingSlashes(_)
StripTrailingSlashes(s) ==
    IF s # <<>> /\ s[Len(s)] = "/" THEN StripTrailingSlashes(SubSeq(s, 1, Len(s) - 1)) ELSE s

(***************************************************************************)
(* Target resolvers.  threw = TRUE stands for a thrown exception; the      *)
(* other fields of such a record carry no meaning.                         *)
(***************************************************************************)
HasScheme(s) == StartsWith(s, S_http) \/ StartsWith(s, S_https)

ParsedTarget(isHomepage, hostname, fullUrl) ==
    [threw |-> FALSE, isHomepage |-> isHomepage, hostname |-> hostname, fullUrl |-> fullUrl]

ThrewTarget == [threw |-> TRUE, isHomepage |-> FALSE, hostname |-> <<>>, fullUrl |-> <<>>]

\* raw = input.trim(), with "https://" put before it when it names no scheme
WithScheme(trimmed) ==
    IF trimmed # <<>> /\ ~HasScheme(trimmed) THEN S_https \o trimmed ELSE trimmed

\* a plausible slip in normalizeTarget: every URL with a host taken as a homepage
normalizedFrom_allHome(u) ==
    LET hostname == StripWww(u.hostname)
        path == IF u.pathname = <<>> THEN <<"/">> ELSE u.pathname
    IN IF ~u.ok THEN ThrewTarget
       ELSE ParsedTarget(TRUE, hostname,
                         u.protocol \o <<"/", "/">> \o hostname \o path \o UrlSearch(u))

\* variant B: normalizeTarget from `const u = new URL(raw)` on
normalizedFrom(u) ==
    LET hostname == StripWww(u.hostname)
        path == IF u.pathname = <<>> THEN <<"/">> ELSE u.pathname
        isHomepage == path = <<"/">> \/ path = <<>>
    IN IF ~u.ok THEN ThrewTarget
       ELSE ParsedTarget(isHomepage, hostname,
                         u.protocol \o <<"/", "/">> \o hostname \o path \o UrlSearch(u))

normalizeTarget(input) == normalizedFrom(ParseURL(WithScheme(Trim(input))))

\* variant C: the same text as variant B's
normalizedFrom_C(u) ==
    LET hostname == StripWww(u.hostname)
        path == IF u.pathname = <<>> THEN <<"/">> ELSE u.pathname
        isHomepage == path = <<"/">> \/ path = <<>>
    IN IF ~u.ok THEN ThrewTarget
       ELSE ParsedTarget(isHomepage, hostname,
                         u.protocol \o <<"/", "/">> \o hostname \o path \o UrlSearch(u))

normalizeTarget_C(input) == normalizedFrom_C(ParseURL(WithScheme(Trim(input))))

\* a plausible slip in scopeArgs: the two branches exchanged
scopeArgs_swapped(parsed) ==
    IF parsed.isHomepage
    THEN [target |-> parsed.fullUrl, mode |-> "none"]
    ELSE [target |-> parsed.hostname, mode |-> "subdomains"]

\* variants B and C: the arguments sent upstream; mode "none" is no mode argument,
\* which the handler reports as "innerpage(exact-url)"
scopeArgs(parsed) ==
    IF parsed.isHomepage
    THEN [target |-> parsed.hostname, mode |-> "subdomains"]
    ELSE [target |-> parsed.fullUrl, mode |-> "none"]

scopeArgs_C(parsed) ==
    IF parsed.isHomepage
    THEN [target |-> parsed.hostname, mode |-> "subdomains"]
    ELSE [target |-> parsed.fullUrl, mode |-> "none"]

\* variant D: parseTarget from `const u = new URL(...)` on
parsedFrom(u) ==
    LET hostname == StripWww(u.hostname)
        pathname == IF u.pathname = <<>> THEN <<"/">> ELSE u.pathname
        isHomepage == pathname = <<"/">> \/ pathname = <<>>
    IN IF ~u.ok THEN ThrewTarget
       ELSE ParsedTarget(isHomepage, hostname,
                         S_https \o hostname \o pathname \o UrlSearch(u))

\* variant D
parseTarget(input) ==
    LET normalizedInput == Trim(input) IN
    IF normalizedInput = <<>> THEN ThrewTarget
    ELSE parsedFrom(ParseURL(IF HasScheme(normalizedInput) THEN normalizedInput
                             ELSE S_https \o normalizedInput))

Scope(threw, isHomepage, hostname, mode, target_used) ==
    [threw |-> threw, isHomepage |-> isHomepage, hostname |-> hostname,
     mode |-> mode, target_used |-> target_used]

ThrewScope == Scope(TRUE, FALSE, <<>>, "none", <<>>)

\* variant D: enforceScopeRule from `const resolved = parseTarget(inputTarget)` on
enforcedFrom(resolved) ==
    IF resolved.threw THEN ThrewScope
    ELSE IF resolved.isHomepage
         THEN Scope(FALSE, TRUE, resolved.hostname, "subdomains", resolved.hostname)
         ELSE Scope(FALSE, FALSE, resolved.hostname, "exact", resolved.fullUrl)

enforceScopeRule(inputTarget) == enforcedFrom(parseTarget(inputTarget))

\* variant E: resolveTargetAndScope from its try block on; u.ok = FALSE is the
\* catch branch, which answers a homepage scope on the raw text
resolvedFrom(raw, u) ==
    LET path == Trim(IF u.pathname = <<>> THEN <<"/">> ELSE u.pathname)
        isHomepage == path = <<"/">> \/ path = <<>> \/ path = <<"/", "/">>
        normalized == StripTrailingSlashes(UrlHref([u EXCEPT !.hasFragment = FALSE]))
    IN IF ~u.ok
       THEN Scope(FALSE, TRUE, StripTrailingSlashes(raw), "subdomains",
                  StripTrailingSlashes(raw))
       ELSE IF isHomepage
            THEN Scope(FALSE, TRUE, u.hostname, "subdomains", u.hostname)
            ELSE Scope(FALSE, FALSE, u.hostname, "exact", normalized)

\* variant E: never throws
resolveTargetAndScope(input) ==
    LET raw == Trim(input) IN
    resolvedFrom(raw, ParseURL(IF HasScheme(raw) THEN raw ELSE S_https \o raw))

\* variants B and C: the handler's use of normalizeTarget's result
scopeFrom(parsed) ==
    IF parsed.threw THEN ThrewScope
    ELSE Scope(FALSE, parsed.isHomepage, parsed.hostname,
               scopeArgs(parsed).mode, scopeArgs(parsed).target)

scopeFrom_C(parsed) ==
    IF parsed.threw THEN ThrewScope
    ELSE Scope(FALSE, parsed.isHomepage, parsed.hostname,
               scopeArgs_C(parsed).mode, scopeArgs_C(parsed).target)

\* What each variant's handler resolves its target parameter to before it calls
\* the upstream tool.  Variants A and F send the parameter as it came, with the
\* default of their mode parameter ("domain", "subdomains").
ResolveScope(v, input) ==
    CASE v = "B" -> scopeFrom(normalizeTarget(input))
      [] v = "C" -> scopeFrom_C(normalizeTarget_C(input))
      [] v = "D" -> enforceScopeRule(input)
      [] v = "E" -> resolveTargetAndScope(input)
      [] v = "A" -> Scope(FALSE, FALSE, <<>>, "domain", input)
      [] v = "F" -> Scope(FALSE, FALSE, <<>>, "subdomains", input)

(***************************************************************************)
(* Upstream answers.  A JSON value is absent (or null), a number, a string,*)
(* the number literal 1e999 (which JSON.parse reads as Infinity), an empty *)
(* array, or a non-empty array whose first row carries the fields          *)
(* refdomains (a) and dofollow_refdomains (d).  An object is a function    *)
(* from the field names the extractors look at to JSON values; a document  *)
(* is a top-level object with optional nested objects.  Keys are taken to  *)
(* appear in the order of FieldOrder, then SubOrder.                       *)
(***************************************************************************)
JAbs == [t |-> "absent", n |-> 0, s |-> <<>>, a |-> JsNull, d |-> JsNull]
JN(n) == [t |-> "num", n |-> n, s |-> <<>>, a |-> JsNull, d |-> JsNull]
JS(s) == [t |-> "str", n |-> 0, s |-> s, a |-> JsNull, d |-> JsNull]
JBig == [t |-> "big", n |-> 0, s |-> <<>>, a |-> JsNull, d |-> JsNull]
JEmptyArr == [t |-> "emptyarr", n |-> 0, s |-> <<>>, a |-> JsNull, d |-> JsNull]
JArr(a, d) == [t |-> "arr", n |-> 0, s |-> <<>>, a |-> a, d |-> d]

\* v == null
JIsNullish(v) == v.t = "absent"

\* Number(v): an array of row objects is NaN, the empty array is 0
ToNumberJ(v) ==
    CASE v.t = "num" -> Num(v.n)
      [] v.t = "str" -> StrToNumber(v.s)
      [] v.t = "big" -> PosInf
      [] v.t = "emptyarr" -> Num(0)
      [] v.t = "arr" -> NaN
      [] OTHER -> JsNull

\* v != null ? Number(v) : null
NumberOrNull(v) == IF JIsNullish(v) THEN JsNull ELSE ToNumberJ(v)

\* a ?? b ?? ... over a sequence of JSON values
RECURSIVE Coalesce(_)
Coalesce(vs) ==
    IF vs = <<>> THEN JAbs
    ELSE IF ~JIsNullish(Head(vs)) THEN Head(vs) ELSE Coalesce(Tail(vs))

FieldOrder ==
    <<"refdomains", "refdomains_total", "referring_domains", "dofollow_refdomains",
      "referring_domains_dofollow", "live_refdomains", "all_time_refdomains",
      "total", "count">>
Fields == {FieldOrder[i] : i \in 1..Len(FieldOrder)}
SubOrder == <<"metrics", "summary", "stats", "data", "result">>
Subs == {SubOrder[i] : i \in 1..Len(SubOrder)}

EmptyObj == [f \in Fields |-> JAbs]

\* a document: isJson = FALSE is text that JSON.parse rejects; has is the set of
\* nested objects present; nested holds data.metrics and result.metrics
NoDoc ==
    [isJson |-> FALSE, top |-> EmptyObj, has |-> {}, sub |-> [s \in Subs |-> EmptyObj],
     hasNested |-> {}, nested |-> [s \in {"data", "result"} |-> EmptyObj]]
EmptyDoc == [NoDoc EXCEPT !.isJson = TRUE]

\* json.<s> || ... : the nested object s, or an object with no fields when absent
SubObj(doc, s) == IF s \in doc.has THEN doc.sub[s] ELSE EmptyObj
NestedMetrics(doc, s) ==
    IF s \in doc.has /\ s \in doc.hasNested THEN doc.nested[s] ELSE EmptyObj

\* a content block: type "text" holds text (doc is what JSON.parse makes of it and
\* rx the digits that follow the first "refdomains" in it, if any); type "json"
\* holds a json field; any other type holds neither
TextBlock(doc, rx) == [type |-> "text", doc |-> doc, rx |-> rx]
JsonBlock(doc) == [type |-> "json", doc |-> doc, rx |-> JsNull]
OtherBlock == [type |-> "image", doc |-> NoDoc, rx |-> JsNull]

\* what callTool gives: it throws, or returns a result with content blocks and
\* (self) whatever other fields the result object carries
ToolThrew == [threw |-> TRUE, blocks |-> <<>>, self |-> EmptyDoc]
ToolResult(blocks) == [threw |-> FALSE, blocks |-> blocks, self |-> EmptyDoc]

\* variants B and C: extractFirstJSONText
RECURSIVE extractFirstJSONText(_)
extractFirstJSONText(blocks) ==
    IF blocks = <<>> THEN NoDoc
    ELSE IF Head(blocks).type = "text" /\ Head(blocks).doc.isJson THEN Head(blocks).doc
    ELSE extractFirstJSONText(Tail(blocks))

\* variant E: parseFirstJsonTextBlock
RECURSIVE parseFirstJsonTextBlock(_)
parseFirstJsonTextBlock(blocks) ==
    IF blocks = <<>> THEN NoDoc
    ELSE IF Head(blocks).type = "text" /\ Head(blocks).doc.isJson THEN Head(blocks).doc
    ELSE parseFirstJsonTextBlock(Tail(blocks))

RdPair(all, dofollow) == [rd_all |-> all, rd_dofollow |-> dofollow]

\* variant B: extractRD
extractRD(json) ==
    LET m == CASE "metrics" \in json.has -> json.sub["metrics"]
               [] "summary" \in json.has -> json.sub["summary"]
               [] OTHER -> json.top
        rdAll == Coalesce(<<m["refdomains"], m["referring_domains"], json.top["refdomains"]>>)
        rdDofollow == Coalesce(<<m["dofollow_refdomains"], m["referring_domains_dofollow"],
                                 json.top["dofollow_refdomains"]>>)
    IN IF ~json.isJson THEN RdPair(JsNull, JsNull)
       ELSE RdPair(NumberOrNull(rdAll), NumberOrNull(rdDofollow))

\* variant B, second tool: extractRD, then the "array under refdomains" case
extractRDWithRows(j2) ==
    LET rd == extractRD(j2)
        rows == j2.top["refdomains"]
    IN IF IsNullish(rd.rd_all) /\ IsNullish(rd.rd_dofollow) /\ j2.isJson /\ rows.t = "arr"
       THEN RdPair(IF ~IsNullish(rows.a) THEN rows.a ELSE rd.rd_all,
                   IF ~IsNullish(rows.d) THEN rows.d ELSE rd.rd_dofollow)
       ELSE rd

\* variant C: deepFindNumber.  The first own key among keys whose value is not null
\* and not NaN as a number wins; then the values are walked in key order, arrays
\* (their first row) and nested objects alike.
RECURSIVE FirstOwnNumber(_, _, _)
FirstOwnNumber(obj, keys, order) ==
    IF order = <<>> THEN JsNull
    ELSE LET v == obj[Head(order)] IN
         IF Head(order) \in keys /\ ~JIsNullish(v) /\ ~IsNaN(ToNumberJ(v))
         THEN ToNumberJ(v)
         ELSE FirstOwnNumber(obj, keys, Tail(order))

RowNumber(v, keys) ==
    CASE "refdomains" \in keys /\ ~IsNullish(v.a) -> v.a
      [] "dofollow_refdomains" \in keys /\ ~IsNullish(v.d) -> v.d
      [] OTHER -> JsNull

RECURSIVE FirstRowNumber(_, _, _)
FirstRowNumber(obj, keys, order) ==
    IF order = <<>> THEN JsNull
    ELSE LET v == obj[Head(order)] IN
         IF v.t = "arr" /\ ~IsNullish(RowNumber(v, keys)) THEN RowNumber(v, keys)
         ELSE FirstRowNumber(obj, keys, Tail(order))

\* r1 ?? r2 on numbers-or-null
OrElse(x, y) == IF ~IsNullish(x) THEN x ELSE y

WalkObj(obj, keys) ==
    OrElse(FirstOwnNumber(obj, keys, FieldOrder), FirstRowNumber(obj, keys, FieldOrder))

RECURSIVE WalkSubs(_, _, _)
WalkSubs(doc, keys, order) ==
    IF order = <<>> THEN JsNull
    ELSE LET s == Head(order)
             here == IF s \in doc.has
                     THEN OrElse(WalkObj(doc.sub[s], keys),
                                 IF s \in doc.hasNested THEN WalkObj(doc.nested[s], keys)
                                 ELSE JsNull)
                     ELSE JsNull
         IN OrElse(here, WalkSubs(doc, keys, Tail(order)))

deepFindNumber(doc, keys) ==
    IF ~doc.isJson THEN JsNull
    ELSE OrElse(WalkObj(doc.top, keys), WalkSubs(doc, keys, SubOrder))

\* variant D: the loop over the content blocks that looks for live_refdomains
RECURSIVE extractLive(_, _, _)
extractLive(blocks, live, allTime) ==
    IF blocks = <<>> THEN [live |-> live, allTime |-> allTime]
    ELSE LET b == Head(blocks)
             parsed == b.doc
             m == SubObj(parsed, "metrics")
             live1 == IF ~JIsNullish(m["live_refdomains"])
                      THEN ToNumberJ(m["live_refdomains"]) ELSE live
             all1 == IF ~JIsNullish(m["all_time_refdomains"])
                     THEN ToNumberJ(m["all_time_refdomains"]) ELSE allTime
             live2 == IF IsNullish(live1) /\ ~JIsNullish(parsed.top["live_refdomains"])
                      THEN ToNumberJ(parsed.top["live_refdomains"]) ELSE live1
             all2 == IF IsNullish(all1) /\ ~JIsNullish(parsed.top["all_time_refdomains"])
                     THEN ToNumberJ(parsed.top["all_time_refdomains"]) ELSE all1
         IN IF b.type # "text" \/ ~parsed.isJson
            THEN extractLive(Tail(blocks), live, allTime)
            ELSE IF ~IsNullish(live2) /\ ~IsNaN(live2)
                 THEN [live |-> live2, allTime |-> all2]
                 ELSE extractLive(Tail(blocks), live2, all2)

\* variant F: the loop over the content blocks that looks for dofollow_refdomains.
\* Within one block a NaN is kept and the next case tried.
RECURSIVE extractDofollow(_, _)
extractDofollow(blocks, rd) ==
    IF blocks = <<>> THEN rd
    ELSE LET b == Head(blocks)
             parsed == b.doc
             rows == parsed.top["refdomains"]
             direct == parsed.top["dofollow_refdomains"]
             inMetrics == SubObj(parsed, "metrics")["dofollow_refdomains"]
             inSummary == SubObj(parsed, "summary")["dofollow_refdomains"]
             rdA == IF rows.t = "arr" /\ ~IsNullish(rows.d) THEN rows.d ELSE rd
             stopA == rows.t = "arr" /\ ~IsNullish(rows.d) /\ ~IsNaN(rdA)
             rdB == IF ~JIsNullish(direct) THEN ToNumberJ(direct) ELSE rdA
             stopB == ~JIsNullish(direct) /\ ~IsNaN(rdB)
             rdC == IF ~JIsNullish(inMetrics) THEN ToNumberJ(inMetrics) ELSE rdB
             stopC == ~JIsNullish(inMetrics) /\ ~IsNaN(rdC)
             rdD == IF ~JIsNullish(inSummary) THEN ToNumberJ(inSummary) ELSE rdC
             stopD == ~JIsNullish(inSummary) /\ ~IsNaN(rdD)
         IN IF b.type # "text" \/ ~parsed.isJson THEN extractDofollow(Tail(blocks), rd)
            ELSE CASE stopA -> rdA
                   [] stopB -> rdB
                   [] stopC -> rdC
                   [] stopD -> rdD
                   [] OTHER -> extractDofollow(Tail(blocks), rdD)

\* variant A: safeNumber
safeNumber(v) ==
    IF JIsNullish(v) THEN JsNull
    ELSE IF ToNumberJ(v).k = "num" THEN ToNumberJ(v) ELSE JsNull

RECURSIVE FirstSafe(_)
FirstSafe(vs) ==
    IF vs = <<>> THEN JsNull
    ELSE IF ~IsNullish(safeNumber(Head(vs))) THEN safeNumber(Head(vs))
    ELSE FirstSafe(Tail(vs))

\* the keys that /refdomains|referring[_-]?domains/i matches, in key order
RefdomainKeys == SubSeq(FieldOrder, 1, 7)

\* variant A: extractRefdomainsCount
extractRefdomainsCount(anyData) ==
    LET candidates ==
            <<anyData.top["refdomains"],
              anyData.top["refdomains_total"],
              SubObj(anyData, "metrics")["refdomains"],
              SubObj(anyData, "stats")["refdomains"],
              SubObj(anyData, "summary")["refdomains"],
              SubObj(anyData, "data")["refdomains"],
              NestedMetrics(anyData, "data")["refdomains"],
              SubObj(anyData, "result")["refdomains"],
              NestedMetrics(anyData, "result")["refdomains"],
              anyData.top["total"],
              anyData.top["count"]>>
    IN IF ~anyData.isJson THEN JsNull
       ELSE OrElse(FirstSafe(candidates),
                   FirstSafe([i \in 1..Len(RefdomainKeys) |-> anyData.top[RefdomainKeys[i]]]))

\* variant A: the loop over the content blocks
RECURSIVE extractFromBlocks(_)
extractFromBlocks(blocks) ==
    IF blocks = <<>> THEN JsNull
    ELSE LET b == Head(blocks) IN
         CASE b.type = "json" /\ b.doc.isJson /\ ~IsNullish(extractRefdomainsCount(b.doc)) ->
                  extractRefdomainsCount(b.doc)
           [] b.type = "text" /\ ~IsNullish(b.rx) -> b.rx
           [] OTHER -> extractFromBlocks(Tail(blocks))

\* variant A: the number the handler extracts from a tool result
extractedFromResult(result) ==
    OrElse(extractFromBlocks(result.blocks), extractRefdomainsCount(result.self))

(***************************************************************************)
(* Inputs                                                                  *)
(***************************************************************************)
MaxRD == 203
MaxNegRD == 2

\* RD values as Number(...) of an upstream field yields them
RdValues == {Num(n) : n \in (0 - MaxNegRD)..MaxRD} \cup {NaN, PosInf, NegInf}

\* the requested_links / desired_links / client_links query parameter
LinkStrings ==
    {<<>>, <<" ">>, <<"a">>, <<"-", "1">>, <<"0">>, <<"5">>, <<"6">>, <<"1", "0">>,
     <<"1", "1">>, <<"2", "0">>, <<"2", "6">>, <<"5", "1">>, <<"1", "0", "0">>}
LinkParams == {QAbsent} \cup {QStr(s) : s \in LinkStrings}

T_example == <<"e", "x", "a", "m", "p", "l", "e", ".", "c", "o", "m">>
T_pricing == <<"/", "p", "r", "i", "c", "i", "n", "g">>
TargetLeads == {<<>>, <<" ">>}
TargetSchemes == {<<>>, S_http, S_https}
TargetHosts == {<<>>, T_example, S_www \o T_example, <<"W", "W", "W", ".", "E", "x", "a", "m", "p", "l", "e", ".", "c", "o", "m">>, <<"e", "x", "a", " ", "m", "p", "l", "e", ".", "c", "o", "m">>}
TargetPaths == {<<>>, <<"/">>, <<"/", "/">>, T_pricing, T_pricing \o <<"/">>, <<"/", "a", "/", "b">>, <<"/", "a", "/", ".", ".">>}
TargetQueries == {<<>>, <<"?">>, <<"?", "q">>}
TargetFragments == {<<>>, <<"#", "f">>}

\* target strings: white space, scheme, host, path, query and fragment, each optional
TargetInputs ==
    {l \o s \o h \o p \o q \o f : l \in TargetLeads, s \in TargetSchemes, h \in TargetHosts,
                                  p \in TargetPaths, q \in TargetQueries,
                                  f \in TargetFragments}

(***************************************************************************)
(* State                                                                   *)
(***************************************************************************)
VARIABLES
    engRd,        \* recommendation engine: the RD value
    engReq,       \* recommendation engine: the raw links query parameter
    engVariant,   \* the variant whose recommendation step ran, "none" before
    engOut,       \* its result [tier, dripfeed]
    resIn,        \* target resolver: the input string
    resVariant,   \* the variant whose resolver ran, "none" before
    resOut,       \* its result, a Scope record
    variant,      \* the version of the service that is running
    proxyKeySet,  \* PROXY_KEY is a non-empty string
    mcpKeySet,    \* AHREFS_MCP_KEY is a non-empty string
    now,          \* Date.now(), in milliseconds
    cached,       \* variant A: the module-level cache {client, tools, connectedAt}
    clients,      \* per client (named by the request that created it): its
                  \* connection state and how often close() was called on it
    req,          \* per request: the state of its handler, a record with
                  \*   pc        where the handler stands
                  \*   inp       header and query parameters
                  \*   scope     the resolved scope
                  \*   client    the client in use, 0 while none
                  \*   startedAt variant A: `now` as getMcpClient read it
                  \*   step      the number of the tool call under way
                  \*   rd        rd_all / rd_dofollow found so far
                  \*   usedTool  variant B: usedTool
                  \*   calls     the callTool invocations made, in order
                  \*   pending   what the callback of withAhrefsMcp settled with
                  \*   resp      the response sent, status 0 while none is
    cacheReads    \* the pairs <<reader, writer>>: request `reader` used the cache
                  \* entry that request `writer` stored

engVars == <<engRd, engReq, engVariant, engOut>>
resVars == <<resIn, resVariant, resOut>>
envVars == <<variant, proxyKeySet, mcpKeySet>>
hVars == <<envVars, now, cached, clients, req, cacheReads>>
vars == <<engVars, resVars, hVars>>

Reqs == {1, 2}

NoResp ==
    [status |-> 0, ok |-> FALSE, tier |-> Tier(0, 0), dripfeed |-> NoDrip,
     rd_used |-> JsNull, target_used |-> <<>>, tool_used |-> "none"]
NoInput == [key |-> "absent", target |-> QAbsent, links |-> QAbsent]
\* filledAt is history: the time at which the entry was assigned
NoCache == [client |-> 0, tools |-> <<>>, hasTools |-> FALSE, connectedAt |-> 0,
            filledAt |-> 0]
NoPending == [kind |-> "none", resp |-> NoResp]

NewRequest ==
    [pc |-> "new", inp |-> NoInput, scope |-> ThrewScope, client |-> 0, startedAt |-> 0,
     step |-> 0, rd |-> RdPair(JsNull, JsNull), usedTool |-> "none", calls |-> <<>>,
               seen |-> <<>>,
     pending |-> NoPending, resp |-> NoResp]

HandlerIdle ==
    /\ now = 0
    /\ cached = NoCache
    /\ clients = [c \in Reqs |-> [state |-> "none", closes |-> 0]]
    /\ req = [r \in Reqs |-> NewRequest]
    /\ cacheReads = {}

HandlerOff ==
    /\ variant = "none"
    /\ proxyKeySet = FALSE
    /\ mcpKeySet = FALSE
    /\ HandlerIdle

EngIdle ==
    /\ engRd = Num(0)
    /\ engReq = QAbsent
    /\ engVariant = "none"
    /\ engOut = [tier |-> Tier(0, 0), dripfeed |-> NoDrip]

ResIdle ==
    /\ resIn = <<>>
    /\ resVariant = "none"
    /\ resOut = ThrewScope

(***************************************************************************)
(* SpecEngine: the recommendation step of each variant applied to one RD   *)
(* value and one links parameter.                                          *)
(***************************************************************************)
InitEngine ==
    /\ engRd \in RdValues
    /\ engReq \in LinkParams
    /\ engVariant = "none"
    /\ engOut = [tier |-> Tier(0, 0), dripfeed |-> NoDrip]
    /\ ResIdle
    /\ HandlerOff

EngineApply(v) ==
    /\ engVariant = "none"
    /\ engVariant' = v
    /\ engOut' = Recommend(v, engRd, engReq)
    /\ UNCHANGED <<engRd, engReq, resVars, hVars>>

RecommendA == EngineApply("A")
RecommendB == EngineApply("B")
RecommendC == EngineApply("C")
RecommendD == EngineApply("D")
RecommendE == EngineApply("E")
RecommendF == EngineApply("F")

NextEngine ==
    \/ RecommendA
    \/ RecommendB
    \/ RecommendC
    \/ RecommendD
    \/ RecommendE
    \/ RecommendF

SpecEngine == InitEngine /\ [][NextEngine]_vars

(***************************************************************************)
(* SpecResolver: each variant's resolver applied to one target string.     *)
(***************************************************************************)
InitResolver ==
    /\ resIn \in TargetInputs
    /\ resVariant = "none"
    /\ resOut = ThrewScope
    /\ EngIdle
    /\ HandlerOff

ResolverApply(v) ==
    /\ resVariant = "none"
    /\ resVariant' = v
    /\ resOut' = ResolveScope(v, resIn)
    /\ UNCHANGED <<resIn, engVars, hVars>>

ResolveB == ResolverApply("B")
ResolveC == ResolverApply("C")
ResolveD == ResolverApply("D")
ResolveE == ResolverApply("E")

NextResolver ==
    \/ ResolveB
    \/ ResolveC
    \/ ResolveD
    \/ ResolveE

SpecResolver == InitResolver /\ [][NextResolver]_vars

(***************************************************************************)
(* Claims about the recommendation step (SpecEngine)                       *)
(***************************************************************************)
\* the tier table of the specification, by RD range
TierTable(n) ==
    CASE n \in 0..10 -> Tier(5, 5)
      [] n \in 11..20 -> Tier(10, 10)
      [] n \in 21..29 -> Tier(10, 10)
      [] n \in 30..80 -> Tier(15, 15)
      [] n \in 81..120 -> Tier(20, 20)
      [] n \in 121..200 -> Tier(25, 25)
      [] OTHER -> Tier(25, 50)

\* C1: for every integer rd >= 0, packageFromRD (variants B and C) and
\* recommendPackageFromRD (variant E) return exactly the tier of the specification's
\* table: 0-10 {5,5}, 11-20 {10,10}, 21-29 {10,10}, 30-80 {15,15}, 81-120 {20,20},
\* 121-200 {25,25}, 201 and above {25,50}.
C1_TierTable ==
    (engVariant \in {"B", "C", "E"} /\ engRd.k = "num" /\ engRd.v >= 0)
        => engOut.tier = TierTable(engRd.v)

\* C1 witness: a tier function has answered at the boundary rd = 201
C1_Witness ==
    engVariant = "B" /\ engRd = Num(201) /\ engOut.tier = Tier(25, 50)

\* the links parameter as the claims read it
LinksProvided == engReq.k = "str" /\ engReq.s # <<>>
LinksNumeric == LinksProvided /\ StrToNumber(engReq.s).k = "num"
LinksAboveMax == LinksNumeric /\ StrToNumber(engReq.s).v > engOut.tier.max

\* C2: in the inline rule of variants B and C dripfeed is enabled if and only if
\* requestedLinks was provided, is numeric, exceeds tier.max for the RD used, and
\* rd <= 20; when enabled the rate is "1 link every 2 days".
C2_DripfeedRule ==
    engVariant \in {"B", "C"} =>
        /\ engOut.dripfeed.enabled <=> (LinksAboveMax /\ LeqLit(engRd, 20))
        /\ engOut.dripfeed.enabled => engOut.dripfeed.rate = "1 link every 2 days"

\* C2 witness: rd = 20, 11 links requested against a tier of 10: dripfeed is enabled
C2_Witness ==
    /\ engVariant = "B"
    /\ engRd = Num(20)
    /\ engReq = QStr(<<"1", "1">>)
    /\ engOut.dripfeed.enabled

\* C3 as stated: for every rd > 20 and every requested link count, every variant's
\* dripfeed decision has enabled == false.
C3_NoDripfeedAbove20 ==
    (engVariant # "none" /\ GtLit(engRd, 20)) => ~engOut.dripfeed.enabled

\* C3 amended: for rd > 20 the inline rule of variants B and C is never enabled;
\* dripfeedIfOversizedOrder (variant E) is enabled exactly when the requested count
\* is numeric and exceeds tier.max, at "1 link every 2 days"; dripfeedFromRD
\* (variant D) is always enabled, at "1 link per day" up to rd = 100 and
\* "2-3 links per day" above.
C3_DripfeedAbove20 ==
    (engVariant # "none" /\ GtLit(engRd, 20)) =>
        /\ engVariant \in {"B", "C"} => ~engOut.dripfeed.enabled
        /\ engVariant = "E" =>
              /\ engOut.dripfeed.enabled <=> LinksAboveMax
              /\ engOut.dripfeed.enabled => engOut.dripfeed.rate = "1 link every 2 days"
        /\ engVariant = "D" =>
              /\ engOut.dripfeed.enabled
              /\ engOut.dripfeed.rate =
                    (IF LeqLit(engRd, 100) THEN "1 link per day" ELSE "2-3 links per day")

\* C3 witness: rd = 150 with 100 links requested, answered by variant E with
\* dripfeed enabled
C3_Witness ==
    /\ engVariant = "E"
    /\ engRd = Num(150)
    /\ engReq = QStr(<<"1", "0", "0">>)
    /\ engOut.dripfeed.enabled

RdNatural == engRd.k = "num" /\ engRd.v >= 0

\* C11 as stated: for every rd in 21..29 every tier function returns {10, 10}.
C11_GapFoldedEverywhere ==
    (engVariant # "none" /\ engRd.k = "num" /\ engRd.v \in 21..29)
        => engOut.tier = Tier(10, 10)

\* C11 amended: for every rd in 21..29, packageFromRD of variants B and C and
\* recommendPackageFromRD of variant E return {10, 10}; packageFromRD of variant D
\* returns {15, 15} (its 30-80 tier reaches down to 21); recommendLinks and
\* recommendLinksFromRD (variants A and F) return {10, 20}.
C11_GapPerVariant ==
    (engVariant # "none" /\ engRd.k = "num" /\ engRd.v \in 21..29) =>
        engOut.tier = CASE engVariant \in {"B", "C", "E"} -> Tier(10, 10)
                        [] engVariant = "D" -> Tier(15, 15)
                        [] OTHER -> Tier(10, 20)

\* C11 witness: variant D has answered rd = 29 with the tier of 15 links
C11_Witness ==
    engVariant = "D" /\ engRd = Num(29) /\ engOut.tier = Tier(15, 15)

\* the four coarse tiers of variants A and F
CoarseTable(n) ==
    CASE n \in 0..19 -> Tier(5, 10)
      [] n \in 20..49 -> Tier(10, 20)
      [] n \in 50..199 -> Tier(20, 35)
      [] OTHER -> Tier(35, 50)

BoundaryPoints == {10, 11, 20, 21, 29, 30, 80, 81, 120, 121, 200, 201}

\* C12 as stated: at the boundary values recommendLinks and recommendLinksFromRD
\* return the tiers of the specification's table.
C12_CoarseBoundariesAsTable ==
    (engVariant \in {"A", "F"} /\ engRd.k = "num" /\ engRd.v \in BoundaryPoints)
        => engOut.tier = TierTable(engRd.v)

\* C12 amended: recommendLinks and recommendLinksFromRD have four tiers of their
\* own, {5,10} below 20, {10,20} from 20 to 49, {20,35} from 50 to 199 and {35,50}
\* from 200 on, for every integer rd >= 0; at 10, 11 they give {5,10}, at 20, 21,
\* 29, 30 {10,20}, at 80, 81, 120, 121 {20,35} and at 200, 201 {35,50}.
C12_CoarseTable ==
    (engVariant \in {"A", "F"} /\ RdNatural) => engOut.tier = CoarseTable(engRd.v)

\* C12 witness: recommendLinks has answered at its boundary rd = 20
C12_Witness ==
    engVariant = "A" /\ engRd = Num(20) /\ engOut.tier = Tier(10, 20)

\* C13: for every rd >= 0 every tier function returns a tier with 0 <= min <= max.
C13_TierOrdered ==
    (engVariant # "none" /\ (RdNatural \/ engRd = PosInf)) =>
        /\ 0 <= engOut.tier.min
        /\ engOut.tier.min <= engOut.tier.max

\* C13 witness: a tier whose min and max differ was returned
C13_Witness ==
    engVariant = "F" /\ engRd = Num(0) /\ engOut.tier.min < engOut.tier.max

\* the tier variant v computes for rd
TierOf(v, rd) == Recommend(v, rd, QAbsent).tier

\* C14: for every pair rd1 < rd2 of values >= 0, tier(rd1).max <= tier(rd2).max, in
\* every tier function: the tier returned for rd2 has a max that is no less than
\* that of every smaller rd1.
C14_TierMonotone ==
    (engVariant # "none" /\ RdNatural) =>
        \A rd1 \in 0..(engRd.v - 1) : TierOf(engVariant, Num(rd1)).max <= engOut.tier.max

\* C14 witness: variant E has answered rd = 81, one above a step of the tiers
C14_Witness ==
    /\ engVariant = "E"
    /\ engRd = Num(81)
    /\ engOut.tier.max = 20
    /\ TierOf("E", Num(80)).max = 15

(***************************************************************************)
(* Claims about the target resolvers (SpecResolver)                        *)
(***************************************************************************)
\* the input as the specification parses it: trimmed, "https://" prepended when it
\* has no scheme, then parsed as a URL
InputUrl ==
    LET t == Trim(resIn) IN ParseURL(IF HasScheme(t) THEN t ELSE S_https \o t)

InputInvalid == Trim(resIn) = <<>> \/ ~InputUrl.ok

\* a full URL naming host h: a scheme, "//", then h
IsFullUrlOf(s, h) ==
    \/ StartsWith(s, S_https \o h)
    \/ StartsWith(s, S_http \o h)

HomepageExamples ==
    /\ resIn = T_example => resOut.isHomepage
    /\ resIn = S_https \o S_www \o T_example \o <<"/">> => resOut.isHomepage
    /\ resIn = T_example \o T_pricing =>
          /\ ~resOut.isHomepage
          /\ resOut.target_used = S_https \o T_example \o T_pricing

\* C6 as stated: isHomepage is true if and only if the parsed URL's path is empty
\* or "/", in every resolver; no other path (such as "//") is a homepage.
C6_HomepageIffRootPath ==
    (resVariant # "none" /\ InputUrl.ok /\ ~resOut.threw) =>
        /\ resOut.isHomepage <=> InputUrl.pathname \in {<<>>, <<"/">>}
        /\ HomepageExamples

\* C6 amended: for an input that parses as a URL, isHomepage is true if and only if
\* the path is empty or "/" in normalizeTarget and parseTarget, and if and only if
\* the path is empty, "/" or "//" in resolveTargetAndScope; the three examples
\* resolve as the specification says.
C6_HomepageIffRootPathOrDoubleSlash ==
    (resVariant # "none" /\ InputUrl.ok /\ ~resOut.threw) =>
        /\ resVariant \in {"B", "C", "D"} =>
              (resOut.isHomepage <=> InputUrl.pathname \in {<<>>, <<"/">>})
        /\ resVariant = "E" =>
              (resOut.isHomepage <=> InputUrl.pathname \in {<<>>, <<"/">>, <<"/", "/">>})
        /\ HomepageExamples

\* C6 witness: resolveTargetAndScope answered "example.com//" as a homepage
C6_Witness ==
    /\ resVariant = "E"
    /\ resIn = T_example \o <<"/", "/">>
    /\ InputUrl.pathname = <<"/", "/">>
    /\ resOut.isHomepage

\* C7: every resolver fails with an error, and returns no scope, when the input is
\* empty, whitespace-only, or cannot be parsed as a URL after "https://" is
\* prepended to a scheme-less input.
C7_InvalidTargetFails ==
    (resVariant # "none" /\ InputInvalid) => resOut.threw

T_WwwUpper ==
    S_https \o <<"W", "W", "W", ".", "E", "x", "a", "m", "p", "l", "e", ".", "c", "o", "m", "/">>

\* C15: the hostname produced by every resolver is lower-case and has a leading
\* "www." removed; "https://WWW.Example.com/" is sent upstream as "example.com".
C15_HostnameCanonical ==
    (resVariant # "none" /\ InputUrl.ok /\ ~resOut.threw) =>
        /\ resOut.hostname = ToLower(resOut.hostname)
        /\ resOut.hostname = StripWww(InputUrl.hostname)
        /\ resIn = T_WwwUpper => resOut.target_used = T_example

\* the input names a scheme
InputHasScheme == HasScheme(Trim(resIn))

\* C16: for an inner-page input the canonical target is scheme://hostname + path +
\* (?query if present), with the input's own scheme, without the fragment and
\* without a trailing slash, in every resolver.
C16_InnerPageCanonical ==
    (resVariant # "none" /\ InputUrl.ok /\ ~resOut.threw /\ ~resOut.isHomepage) =>
        resOut.target_used =
            InputUrl.protocol \o <<"/", "/">> \o resOut.hostname
            \o StripTrailingSlashes(InputUrl.pathname) \o UrlSearch(InputUrl)

CacheTtlMs == 600000

Status(s) == [NoResp EXCEPT !.status = s]

Finish(q, response) == [q EXCEPT !.pc = "done", !.resp = response]

\* the callback of withAhrefsMcp returned (kind "returned") or threw ("threw"); the
\* client is closed next and the response follows
Settle(q, kind, response) ==
    [q EXCEPT !.pc = "closing", !.pending = [kind |-> kind, resp |-> response]]

OkResp(q, rec, rdUsed, tool) ==
    [status |-> 200, ok |-> TRUE, tier |-> rec.tier, dripfeed |-> rec.dripfeed,
     rd_used |-> rdUsed, target_used |-> q.scope.target_used, tool_used |-> tool]

FailResp(q, tool) ==
    [NoResp EXCEPT !.status = 502, !.target_used = q.scope.target_used, !.tool_used = tool]

\* variant A: 500 when PROXY_KEY is unset, 401 on a missing or wrong header, 0 to
\* go on
requireProxyKeyA(keySet, key) ==
    IF ~keySet THEN 500 ELSE IF key # "match" THEN 401 ELSE 0

\* a plausible slip in requireProxyKey: no check at all while PROXY_KEY is unset
requireProxyKey_openWhenUnset(keySet, key) ==
    IF keySet /\ key # "match" THEN 401 ELSE 0

\* variants B-F
requireProxyKey(keySet, key) ==
    IF ~keySet \/ key # "match" THEN 401 ELSE 0

\* variant A: a slip in the reuse test, the entry kept for one millisecond more
CacheFresh_inclusive(c, t) ==
    c.client # 0 /\ c.hasTools /\ (t - c.connectedAt) <= CacheTtlMs

\* variant A: the reuse test of getMcpClient
CacheFresh(c, t) ==
    c.client # 0 /\ c.hasTools /\ (t - c.connectedAt) < CacheTtlMs

\* variant A: a tool of the list, with what the two regular expressions of
\* pickRefdomainsTool make of its name and description
ToolEntry(name, nameHit, descHit) == [name |-> name, nameHit |-> nameHit, descHit |-> descHit]

RECURSIVE FirstByName(_)
FirstByName(tools) ==
    IF tools = <<>> THEN "none"
    ELSE IF Head(tools).nameHit THEN Head(tools).name ELSE FirstByName(Tail(tools))

RECURSIVE FirstByDesc(_)
FirstByDesc(tools) ==
    IF tools = <<>> THEN "none"
    ELSE IF Head(tools).descHit THEN Head(tools).name ELSE FirstByDesc(Tail(tools))

pickRefdomainsTool(tools) ==
    IF FirstByName(tools) # "none" THEN FirstByName(tools) ELSE FirstByDesc(tools)

\* the tool each variant calls at step n
ToolName(v, n) ==
    CASE v = "B" /\ n = 1 -> "site-explorer-backlinks-stats"
      [] v = "B" /\ n = 2 -> "site-explorer-referring-domains"
      [] v = "B" /\ n = 3 -> "site-explorer-metrics"
      [] v = "C" /\ n = 1 -> "site-explorer-backlinks-stats"
      [] v = "C" /\ n = 2 -> "site-explorer-referring-domains"
      [] v \in {"D", "E"} -> "site-explorer-backlinks-stats"
      [] v = "F" -> "site-explorer-referring-domains"

\* client.callTool({name, arguments: {target, mode, ...}}) is invoked; its promise
\* is awaited
IssueCall(q, n, tool) ==
    [q EXCEPT !.pc = "calling", !.step = n,
              !.calls = Append(@, [tool |-> tool, target |-> q.scope.target_used,
                                   mode |-> q.scope.mode, client |-> q.client])]

\* history: what request q was given from outside its own inputs (the outcome of a
\* connect, a tool list, the answer to a tool call, an entry of the cache)
Saw(q, kind, ok, tools, ans) ==
    [q EXCEPT !.seen = Append(@, [kind |-> kind, ok |-> ok, tools |-> tools, ans |-> ans])]

FromCache(q) == q.seen # <<>> /\ q.seen[1].kind = "cache"

\* variant A: what follows `await getMcpClient()`
AfterGetMcpClient(q, tools) ==
    LET toolName == pickRefdomainsTool(tools) IN
    IF toolName = "none" THEN Finish(q, Status(502))
    ELSE IssueCall([q EXCEPT !.usedTool = toolName], 1, toolName)

\* Request r, authorized and with a target, from the resolution of its target (q
\* holds its outcome) to the first await.  rejectTo says what becomes of an
\* exception thrown outside the handler's try block: the promise the async handler
\* returned is rejected, which Express 4 leaves unhandled (no response is sent) and
\* Express 5 passes to its error handler (a 500 response).
HandlerResolved(v, r, q, mcpSet, cache, t, rejectTo) ==
    CASE q.scope.threw ->
            IF rejectTo = "errorHandler" THEN Finish(q, Status(500))
            ELSE [q EXCEPT !.pc = "unhandled"]
      [] v = "A" /\ CacheFresh(cache, t) ->
            AfterGetMcpClient(Saw([q EXCEPT !.client = cache.client],
                                  "cache", TRUE, cache.tools, ToolThrew),
                              cache.tools)
      [] ~mcpSet -> Finish(q, Status(500))
      [] OTHER -> [q EXCEPT !.pc = "connecting", !.client = r, !.startedAt = t]

\* From the arrival of request r to its first await.
HandlerStart(v, r, q, keySet, mcpSet, cache, t, rejectTo) ==
    LET auth == IF v = "A" THEN requireProxyKeyA(keySet, q.inp.key)
                ELSE requireProxyKey(keySet, q.inp.key)
    IN CASE auth # 0 -> Finish(q, Status(auth))
         [] q.inp.target.k = "absent" \/ q.inp.target.s = <<>> -> Finish(q, Status(400))
         [] OTHER -> HandlerResolved(v, r, [q EXCEPT !.scope = ResolveScope(v, q.inp.target.s)],
                                     mcpSet, cache, t, rejectTo)

\* variant B: what the call of step q.step leaves in rd_all and rd_dofollow
FoundB(q, ans) ==
    CASE ans.threw -> q.rd
      [] q.step = 2 -> extractRDWithRows(extractFirstJSONText(ans.blocks))
      [] OTHER -> extractRD(extractFirstJSONText(ans.blocks))

\* variant B: a plausible slip in the fallback tests, || written for && so that a
\* later tool is tried while either value is missing
DecideB_eitherNull(q) ==
    LET bothNull == IsNullish(q.rd.rd_all) /\ IsNullish(q.rd.rd_dofollow)
        eitherNull == IsNullish(q.rd.rd_all) \/ IsNullish(q.rd.rd_dofollow)
        rdForPackage == IF ~IsNullish(q.rd.rd_all) THEN q.rd.rd_all ELSE q.rd.rd_dofollow
    IN CASE eitherNull /\ q.step < 3 -> IssueCall(q, q.step + 1, ToolName("B", q.step + 1))
         [] bothNull -> Settle(q, "returned", FailResp(q, q.usedTool))
         [] OTHER -> Settle(q, "returned",
                            OkResp(q, Recommend("B", rdForPackage, q.inp.links),
                                   rdForPackage, q.usedTool))

\* variant B: the rest of the three-tool chain, q holding what was found so far
DecideB(q) ==
    LET bothNull == IsNullish(q.rd.rd_all) /\ IsNullish(q.rd.rd_dofollow)
        rdForPackage == IF ~IsNullish(q.rd.rd_all) THEN q.rd.rd_all ELSE q.rd.rd_dofollow
    IN CASE bothNull /\ q.step < 3 -> IssueCall(q, q.step + 1, ToolName("B", q.step + 1))
         [] bothNull -> Settle(q, "returned", FailResp(q, q.usedTool))
         [] OTHER -> Settle(q, "returned",
                            OkResp(q, Recommend("B", rdForPackage, q.inp.links),
                                   rdForPackage, q.usedTool))

\* variant B: the call of step q.step settled with ans
AfterToolB(q, ans) ==
    DecideB([q EXCEPT !.rd = FoundB(q, ans),
                      !.usedTool = IF ans.threw THEN @ ELSE ToolName("B", q.step)])

\* variant C
FoundC(q, ans) ==
    IF ans.threw THEN q.rd
    ELSE RdPair(OrElse(deepFindNumber(extractFirstJSONText(ans.blocks),
                                      {"refdomains", "referring_domains"}),
                       q.rd.rd_all),
                OrElse(deepFindNumber(extractFirstJSONText(ans.blocks),
                                      {"dofollow_refdomains", "referring_domains_dofollow"}),
                       q.rd.rd_dofollow))

\* variant C: the rest of the two-tool chain
DecideC(q) ==
    LET rd_used == IF ~IsNullish(q.rd.rd_all) THEN q.rd.rd_all ELSE q.rd.rd_dofollow IN
    CASE IsNullish(q.rd.rd_all) /\ IsNullish(q.rd.rd_dofollow) /\ q.step < 2 ->
            IssueCall(q, 2, ToolName("C", 2))
      [] IsNullish(rd_used) -> Settle(q, "returned", FailResp(q, "none"))
      [] OTHER -> Settle(q, "returned",
                         OkResp(q, Recommend("C", rd_used, q.inp.links), rd_used, "none"))

AfterToolC(q, ans) == DecideC([q EXCEPT !.rd = FoundC(q, ans)])

\* variant D: live is what the loop over the blocks found, allTime its companion
DecideD(q, live, allTime) ==
    IF IsNullish(live) \/ IsNaN(live)
    THEN Settle(q, "returned", FailResp(q, ToolName("D", 1)))
    ELSE Settle([q EXCEPT !.rd = RdPair(IF IsNullish(allTime) \/ IsNaN(allTime)
                                        THEN live ELSE allTime, live)],
                "returned", OkResp(q, Recommend("D", live, q.inp.links), live, "none"))

AfterToolD(q, ans) ==
    IF ans.threw THEN Settle(q, "threw", Status(500))
    ELSE DecideD(q, extractLive(ans.blocks, JsNull, JsNull).live,
                 extractLive(ans.blocks, JsNull, JsNull).allTime)

\* variant E: liveRD and allTimeRD are parsed?.metrics?.live_refdomains and
\* parsed?.metrics?.all_time_refdomains
DecideE(q, liveRD, allTimeRD) ==
    CASE JIsNullish(liveRD) -> Settle(q, "returned", FailResp(q, ToolName("E", 1)))
      [] IsNaN(ToNumberJ(liveRD)) ->
            Settle(q, "returned", [FailResp(q, "none") EXCEPT !.target_used = <<>>])
      [] OTHER -> Settle([q EXCEPT !.rd = RdPair(NumberOrNull(allTimeRD), ToNumberJ(liveRD))],
                         "returned",
                         OkResp(q, Recommend("E", ToNumberJ(liveRD), q.inp.links),
                                ToNumberJ(liveRD), "none"))

AfterToolE(q, ans) ==
    IF ans.threw THEN Settle(q, "threw", Status(500))
    ELSE DecideE(q, SubObj(parseFirstJsonTextBlock(ans.blocks), "metrics")["live_refdomains"],
                 SubObj(parseFirstJsonTextBlock(ans.blocks), "metrics")["all_time_refdomains"])

\* variant F: rd is what the loop over the blocks found
DecideF(q, rd) ==
    IF IsNullish(rd) \/ IsNaN(rd)
    THEN Settle(q, "returned", [FailResp(q, "none") EXCEPT !.target_used = <<>>])
    ELSE Settle([q EXCEPT !.rd = RdPair(JsNull, rd)], "returned",
                [OkResp(q, Recommend("F", rd, q.inp.links), rd, "none")
                    EXCEPT !.target_used = q.inp.target.s])

\* variant F with the per-call try/catch of the three-tool chain: an exception of
\* callTool is swallowed and the callback goes on with rd = null
AfterToolF_caught(q, ans) ==
    IF ans.threw THEN DecideF(q, JsNull)
    ELSE DecideF(q, extractDofollow(ans.blocks, JsNull))

AfterToolF(q, ans) ==
    IF ans.threw THEN Settle(q, "threw", Status(500))
    ELSE DecideF(q, extractDofollow(ans.blocks, JsNull))

\* variant A: the client stays open, the response is sent at once
DecideA(q, extracted) ==
    IF IsNullish(extracted)
    THEN Finish(q, [Status(502) EXCEPT !.tool_used = q.usedTool])
    ELSE Finish([q EXCEPT !.rd = RdPair(extracted, JsNull)],
                [OkResp(q, Recommend("A", extracted, q.inp.links), extracted, "none")
                    EXCEPT !.target_used = q.inp.target.s])

AfterToolA(q, ans) ==
    IF ans.threw THEN Finish(q, Status(500)) ELSE DecideA(q, extractedFromResult(ans))

AfterTool(v, q, ans) ==
    CASE v = "A" -> AfterToolA(q, ans)
      [] v = "B" -> AfterToolB(q, ans)
      [] v = "C" -> AfterToolC(q, ans)
      [] v = "D" -> AfterToolD(q, ans)
      [] v = "E" -> AfterToolE(q, ans)
      [] v = "F" -> AfterToolF(q, ans)

\* a plausible slip in withAhrefsMcp: `finally { await client.close(); }` without
\* the inner try/catch, so that what close() throws replaces the callback's outcome
AfterClose_unguarded(q, closeThrew) ==
    IF closeThrew \/ q.pending.kind = "threw" THEN Finish(q, Status(500))
    ELSE Finish(q, q.pending.resp)

\* the response after the finally block of withAhrefsMcp: 502 for a result that is
\* not ok, 200 otherwise, 500 from the catch block of the handler; what close()
\* threw was caught and dropped inside the finally block
AfterClose(q, closeThrew) ==
    IF q.pending.kind = "threw" THEN Finish(q, Status(500))
    ELSE Finish(q, q.pending.resp)

(***************************************************************************)
(* Actions of the handlers                                                 *)
(***************************************************************************)
Variants == {"A", "B", "C", "D", "E", "F"}
Keys == {"absent", "wrong", "match"}
RejectOutcomes == {"unhandled", "errorHandler"}

Request(r, keys, targets, links) ==
    /\ req[r].pc = "new"
    /\ \E key \in keys, target \in targets, lk \in links, rejectTo \in RejectOutcomes :
          LET q0 == [req[r] EXCEPT !.inp = [key |-> key, target |-> target, links |-> lk]]
              q1 == HandlerStart(variant, r, q0, proxyKeySet, mcpKeySet, cached, now, rejectTo)
          IN /\ req' = [req EXCEPT ![r] = q1]
             /\ clients' = IF q1.pc = "connecting"
                           THEN [clients EXCEPT ![r].state = "connecting"] ELSE clients
             /\ cacheReads' = IF FromCache(q1)
                              THEN cacheReads \cup {[reader |-> r, writer |-> cached.client,
                                                    age |-> now - cached.connectedAt]}
                              ELSE cacheReads
    /\ UNCHANGED <<engVars, resVars, envVars, now, cached>>

\* await client.connect(transport) settles
ConnectDone(r) ==
    /\ req[r].pc = "connecting"
    /\ \E ok \in BOOLEAN :
          LET q == Saw(req[r], "connect", ok, <<>>, ToolThrew) IN
          IF ~ok
          THEN /\ req' = [req EXCEPT ![r] = Finish(q, Status(500))]
               /\ clients' = [clients EXCEPT ![r].state = "failed"]
          ELSE /\ req' = [req EXCEPT ![r] = IF variant = "A" THEN [q EXCEPT !.pc = "listing"]
                                            ELSE IssueCall(q, 1, ToolName(variant, 1))]
               /\ clients' = [clients EXCEPT ![r].state = "open"]
    /\ UNCHANGED <<engVars, resVars, envVars, now, cached, cacheReads>>

\* variant A with a plausible slip: the entry stamped with the time at which
\* listTools() settled, not with the `now` read when getMcpClient was entered
ListDone_stampedAtSuccess(r, toolLists) ==
    /\ req[r].pc = "listing"
    /\ \E ok \in BOOLEAN, tools \in toolLists :
          LET q == Saw(req[r], "list", ok, IF ok THEN tools ELSE <<>>, ToolThrew) IN
          IF ~ok
          THEN /\ req' = [req EXCEPT ![r] = Finish(q, Status(500))]
               /\ UNCHANGED cached
          ELSE /\ req' = [req EXCEPT ![r] = AfterGetMcpClient(q, tools)]
               /\ cached' = [client |-> r, tools |-> tools, hasTools |-> TRUE,
                             connectedAt |-> now, filledAt |-> now]
    /\ UNCHANGED <<engVars, resVars, envVars, now, clients, cacheReads>>

\* variant A: await client.listTools() settles; the entry is stamped with the time
\* read when getMcpClient was entered
ListDone(r, toolLists) ==
    /\ req[r].pc = "listing"
    /\ \E ok \in BOOLEAN, tools \in toolLists :
          LET q == Saw(req[r], "list", ok, IF ok THEN tools ELSE <<>>, ToolThrew) IN
          IF ~ok
          THEN /\ req' = [req EXCEPT ![r] = Finish(q, Status(500))]
               /\ UNCHANGED cached
          ELSE /\ req' = [req EXCEPT ![r] = AfterGetMcpClient(q, tools)]
               /\ cached' = [client |-> r, tools |-> tools, hasTools |-> TRUE,
                             connectedAt |-> q.startedAt, filledAt |-> now]
    /\ UNCHANGED <<engVars, resVars, envVars, now, clients, cacheReads>>

\* await client.callTool(...) settles
ToolDone(r, answers) ==
    /\ req[r].pc = "calling"
    /\ \E ans \in answers :
          req' = [req EXCEPT ![r] = AfterTool(variant, Saw(req[r], "tool", ~ans.threw, <<>>, ans), ans)]
    /\ UNCHANGED <<engVars, resVars, envVars, now, cached, clients, cacheReads>>

\* variants B-F: await client.close() settles; what it throws is swallowed
CloseDone(r) ==
    /\ req[r].pc = "closing"
    /\ \E closeThrew \in BOOLEAN :
          /\ clients' = [clients EXCEPT ![r] = [state |-> IF closeThrew THEN "closeFailed" ELSE "closed",
                                                closes |-> @.closes + 1]]
          /\ req' = [req EXCEPT ![r] = AfterClose(req[r], closeThrew)]
    /\ UNCHANGED <<engVars, resVars, envVars, now, cached, cacheReads>>

(***************************************************************************)
(* Requests and upstream answers the handlers are run on                   *)
(***************************************************************************)
ObjOf(pairs) ==
    [f \in Fields |-> IF \E p \in pairs : p[1] = f
                      THEN (CHOOSE p \in pairs : p[1] = f)[2] ELSE JAbs]

\* {"f": v, ...}
TopDoc(pairs) == [EmptyDoc EXCEPT !.top = ObjOf(pairs)]

\* {"s": {"f": v, ...}}
SubDoc(s, pairs) == [EmptyDoc EXCEPT !.has = {s}, !.sub[s] = ObjOf(pairs)]

D_metrics15 == SubDoc("metrics", {<<"refdomains", JN(15)>>, <<"dofollow_refdomains", JN(9)>>})
D_flat150 == TopDoc({<<"refdomains", JN(150)>>})
D_negative == SubDoc("metrics", {<<"refdomains", JN(-1)>>})
D_notNumeric == SubDoc("metrics", {<<"refdomains", JS(<<"a", "b", "c">>)>>})
D_huge == TopDoc({<<"dofollow_refdomains", JBig>>})
D_rows == TopDoc({<<"refdomains", JArr(Num(7), Num(3))>>})
D_live == SubDoc("metrics", {<<"live_refdomains", JN(25)>>, <<"all_time_refdomains", JN(40)>>})
D_liveNotNumeric == SubDoc("metrics", {<<"live_refdomains", JS(<<"a">>)>>})
D_summary12 == SubDoc("summary", {<<"dofollow_refdomains", JN(12)>>})
D_total12 == TopDoc({<<"total", JN(12)>>})

Answers ==
    {ToolThrew,
     ToolResult(<<>>),
     ToolResult(<<TextBlock(NoDoc, JsNull)>>),
     ToolResult(<<TextBlock(NoDoc, Num(42))>>),
     ToolResult(<<TextBlock(EmptyDoc, JsNull)>>),
     ToolResult(<<TextBlock(D_metrics15, Num(15))>>),
     ToolResult(<<TextBlock(D_flat150, Num(150))>>),
     ToolResult(<<TextBlock(D_negative, Num(1))>>),
     ToolResult(<<TextBlock(D_notNumeric, JsNull)>>),
     ToolResult(<<TextBlock(D_huge, Num(1))>>),
     ToolResult(<<TextBlock(D_rows, Num(7))>>),
     ToolResult(<<TextBlock(D_live, Num(25))>>),
     ToolResult(<<TextBlock(D_liveNotNumeric, JsNull)>>),
     ToolResult(<<TextBlock(D_summary12, Num(12))>>),
     ToolResult(<<OtherBlock, JsonBlock(D_total12)>>),
     ToolResult(<<TextBlock(NoDoc, JsNull), TextBlock(D_flat150, Num(150))>>)}

T_refdomainsTool == "site-explorer-referring-domains"
ToolLists ==
    {<<>>,
     <<ToolEntry(T_refdomainsTool, TRUE, TRUE)>>,
     <<ToolEntry("site-explorer-metrics", FALSE, FALSE)>>,
     <<ToolEntry("site-explorer-metrics", FALSE, FALSE),
       ToolEntry("site-explorer-backlinks-stats", FALSE, TRUE)>>}

T_spaced == <<"e", "x", "a", " ", "m", "p", "l", "e", ".", "c", "o", "m">>
Targets ==
    {QAbsent, QStr(<<>>), QStr(<<" ">>), QStr(T_example), QStr(T_example \o T_pricing),
     QStr(T_spaced), QStr(S_https \o S_www \o T_example \o <<"/">>),
     QStr(T_example \o <<"/", "/">>)}
LinkInputs == {QAbsent, QStr(<<"1", "1">>)}

(***************************************************************************)
(* One request at a time, under each variant and each configuration        *)
(***************************************************************************)
Init ==
    /\ variant \in Variants
    /\ proxyKeySet \in BOOLEAN
    /\ mcpKeySet \in BOOLEAN
    /\ HandlerIdle
    /\ EngIdle
    /\ ResIdle

Next ==
    \/ Request(1, Keys, Targets, LinkInputs)
    \/ ConnectDone(1)
    \/ ListDone(1, ToolLists)
    \/ ToolDone(1, Answers)
    \/ CloseDone(1)

Spec == Init /\ [][Next]_vars

(***************************************************************************)
(* Two requests of one process, overlapping or one after the other, with   *)
(* time passing between their steps                                        *)
(***************************************************************************)
MaxTicks == 3
TickMs == CacheTtlMs \div 2

\* Date.now() moves on
Tick ==
    /\ now < MaxTicks * TickMs
    /\ now' = now + TickMs
    /\ UNCHANGED <<engVars, resVars, envVars, cached, clients, req, cacheReads>>

SharedKeys == {"match", "wrong"}
SharedTargets == {QStr(T_example), QStr(T_example \o T_pricing)}
SharedLinks == {QAbsent}
SharedToolLists == {<<>>, <<ToolEntry(T_refdomainsTool, TRUE, TRUE)>>}
SharedAnswers == {ToolThrew, ToolResult(<<TextBlock(D_metrics15, Num(15))>>)}

InitShared ==
    /\ variant \in Variants
    /\ proxyKeySet \in BOOLEAN
    /\ mcpKeySet = TRUE
    /\ HandlerIdle
    /\ EngIdle
    /\ ResIdle

NextShared ==
    \/ \E r \in Reqs : Request(r, SharedKeys, SharedTargets, SharedLinks)
    \/ \E r \in Reqs : ConnectDone(r)
    \/ \E r \in Reqs : ListDone(r, SharedToolLists)
    \/ \E r \in Reqs : ToolDone(r, SharedAnswers)
    \/ \E r \in Reqs : CloseDone(r)
    \/ Tick

SpecShared == InitShared /\ [][NextShared]_vars

(***************************************************************************)
(* Claims about the handlers (Spec)                                        *)
(***************************************************************************)
Responded(r) == req[r].pc = "done"

\* the request carried the configured proxy key
Authorized(r) == proxyKeySet /\ req[r].pc # "new" /\ req[r].inp.key = "match"

\* a finite number that is not negative
ValidRd(x) == x.k = "num" /\ x.v >= 0

\* C4: when the RD value obtained from upstream is negative, NaN or not finite, no
\* ok:true / HTTP 200 recommendation is returned: every 200 response was computed
\* from a finite RD value that is not negative.
C4_InvalidRdRejected ==
    \A r \in Reqs : (Responded(r) /\ req[r].resp.status = 200) => ValidRd(req[r].resp.rd_used)

\* the target parameter is present and is whitespace only or no URL with or
\* without "https://" before it
TargetInvalid(tg) ==
    /\ tg.k = "str"
    /\ tg.s # <<>>
    /\ \/ Trim(tg.s) = <<>>
       \/ ~ParseURL(IF HasScheme(Trim(tg.s)) THEN Trim(tg.s) ELSE S_https \o Trim(tg.s)).ok

\* C8: an authorized request whose target is invalid is never left without a
\* response and is never answered with anything but a 4xx status.
C8_InvalidTargetGets4xx ==
    \A r \in Reqs :
        (Authorized(r) /\ TargetInvalid(req[r].inp.target)) =>
            /\ req[r].pc # "unhandled"
            /\ Responded(r) => req[r].resp.status \in 400..499

\* C9: the target sent to the upstream tool is never the empty string.
C9_TargetSentNonEmpty ==
    \A r \in Reqs : \A i \in 1..Len(req[r].calls) : req[r].calls[i].target # <<>>

Connected(r) == clients[r].state \in {"open", "closed", "closeFailed"}

\* C19: in the services that open a client per request, a client whose connect()
\* succeeded is closed exactly once, not before the callback of withAhrefsMcp has
\* settled and not after the response; the response is the callback's result, or
\* the 500 of its exception, also when close() threw.  A client that never
\* connected is never closed.
C19_ClosedOnceAroundCallback ==
    \A r \in Reqs :
        /\ clients[r].closes <= 1
        /\ ~Connected(r) => clients[r].closes = 0
        /\ (variant # "A" /\ Connected(r)) =>
              /\ req[r].client = r
              /\ req[r].pc \in {"calling", "closing", "done"}
              /\ req[r].pc = "calling" => clients[r].state = "open" /\ req[r].pending = NoPending
              /\ req[r].pc = "closing" => clients[r].state = "open" /\ req[r].pending # NoPending
              /\ req[r].pc = "done" =>
                    /\ clients[r].closes = 1
                    /\ clients[r].state \in {"closed", "closeFailed"}
                    /\ req[r].pending # NoPending
                    /\ req[r].resp = IF req[r].pending.kind = "threw" THEN Status(500)
                                     ELSE req[r].pending.resp
              /\ clients[r].state = "open" => clients[r].closes = 0

\* C19 witness: close() threw after a callback that returned a recommendation, and
\* the request was answered 200 with it
C19_Witness ==
    \E r \in Reqs :
        /\ variant \in {"B", "D"}
        /\ req[r].pc = "done"
        /\ clients[r].state = "closeFailed" /\ clients[r].closes = 1
        /\ req[r].pending.kind = "returned"
        /\ req[r].resp.status = 200

\* C19 witness of the other outcome: the callback threw, the client was closed once
\* and the request was answered 500
C19_WitnessThrew ==
    \E r \in Reqs :
        /\ variant = "F"
        /\ req[r].pc = "done"
        /\ clients[r].closes = 1
        /\ req[r].pending.kind = "threw"
        /\ req[r].resp.status = 500

\* the tool names in the order of the source text (server.js:461, 476, 506)
ChainB == <<"site-explorer-backlinks-stats", "site-explorer-referring-domains",
            "site-explorer-metrics">>

\* part_000:166, 188
ChainC == <<"site-explorer-backlinks-stats", "site-explorer-referring-domains">>

IsToolRecord(s) == s.kind = "tool"

\* the answers request r was given to its tool calls, in order
ToolAnswers(r) == SelectSeq(req[r].seen, IsToolRecord)

\* the i-th call of the three-tool chain threw, or its answer holds neither rd_all
\* nor rd_dofollow
NothingFoundB(i, a) ==
    \/ a.threw
    \/ LET found == IF i = 2 THEN extractRDWithRows(extractFirstJSONText(a.blocks))
                    ELSE extractRD(extractFirstJSONText(a.blocks))
       IN IsNullish(found.rd_all) /\ IsNullish(found.rd_dofollow)

\* the same for the two-tool chain
NothingFoundC(a) ==
    \/ a.threw
    \/ /\ IsNullish(deepFindNumber(extractFirstJSONText(a.blocks),
                                   {"refdomains", "referring_domains"}))
       /\ IsNullish(deepFindNumber(extractFirstJSONText(a.blocks),
                                   {"dofollow_refdomains", "referring_domains_dofollow"}))

\* C20: the three-tool chain calls site-explorer-backlinks-stats,
\* site-explorer-referring-domains, site-explorer-metrics in this order, each at
\* most once; tool i+1 is called exactly when every earlier call threw or left both
\* rd_all and rd_dofollow null, so a call that throws is followed by the next tool.
\* The two-tool chain does the same with its two tools.
C20_ToolChainOrder ==
    \A r \in Reqs :
        LET calls == req[r].calls
            answers == ToolAnswers(r)
        IN /\ variant = "B" =>
                /\ Len(calls) <= 3
                /\ \A i \in 1..Len(calls) : calls[i].tool = ChainB[i]
                /\ \A i, j \in 1..Len(calls) : i # j => calls[i].tool # calls[j].tool
                /\ Len(answers) \in {n \in {Len(calls) - 1, Len(calls)} : n >= 0}
                /\ \A i \in 1..Len(answers) :
                      /\ i < Len(calls) => \A k \in 1..i : NothingFoundB(k, answers[k].ans)
                      /\ (i < 3 /\ \A k \in 1..i : NothingFoundB(k, answers[k].ans)) => i < Len(calls)
                      /\ (i < 3 /\ answers[i].ans.threw) => i < Len(calls)
           /\ variant = "C" =>
                /\ Len(calls) <= 2
                /\ \A i \in 1..Len(calls) : calls[i].tool = ChainC[i]
                /\ Len(calls) = 2 /\ answers # <<>> => NothingFoundC(answers[1].ans)
                /\ (answers # <<>> /\ NothingFoundC(answers[1].ans)) => Len(calls) = 2

\* C20 witness: the first tool threw, the second answered without RD fields, the
\* third was called and gave the value of the response
C20_Witness ==
    \E r \in Reqs :
        /\ variant = "B"
        /\ req[r].pc = "done" /\ req[r].resp.status = 200
        /\ Len(req[r].calls) = 3
        /\ req[r].calls[3].tool = "site-explorer-metrics"
        /\ ToolAnswers(r)[1].ans.threw
        /\ ~ToolAnswers(r)[2].ans.threw
        /\ req[r].resp.tool_used = "site-explorer-metrics"

\* the three-tool chain of request r has returned and the request is answered
AnsweredB(r) == variant = "B" /\ req[r].pc = "done" /\ req[r].calls # <<>>
                /\ req[r].pending.kind = "returned"

\* the half of C21 about success: tool_used names the tool whose answer held the RD
\* value, which is the last tool called
C21_ToolUsedSuppliedRd ==
    \A r \in Reqs :
        (AnsweredB(r) /\ req[r].resp.status = 200) =>
            LET n == Len(req[r].calls) IN
            /\ Len(ToolAnswers(r)) = n
            /\ ~NothingFoundB(n, ToolAnswers(r)[n].ans)
            /\ req[r].resp.tool_used = ChainB[n]

\* C21: in the three-tool chain, tool_used of a 200 response names the tool whose
\* answer supplied the RD value, and last_tool_attempted of a 502 response names
\* the last tool on which callTool was invoked in the request, also when that
\* call threw.
C21_ToolNamesReported ==
    /\ C21_ToolUsedSuppliedRd
    /\ \A r \in Reqs :
          (AnsweredB(r) /\ req[r].resp.status = 502) =>
              req[r].resp.tool_used = req[r].calls[Len(req[r].calls)].tool

\* request r came with the right key and a non-empty target and has run to its end
HasTarget(r) == req[r].inp.target.k = "str" /\ req[r].inp.target.s # <<>>
Served(r) == Authorized(r) /\ HasTarget(r) /\ req[r].pc = "done"

\* an RD value other than null came out of a tool answer of request r
Extracted(r) == ~IsNullish(req[r].rd.rd_all) \/ ~IsNullish(req[r].rd.rd_dofollow)

SawFailed(r, kind) == \E i \in 1..Len(req[r].seen) :
                          req[r].seen[i].kind = kind /\ ~req[r].seen[i].ok

\* request r got hold of a client: its own connect() succeeded or the cache gave one
GotClient(r) == \E i \in 1..Len(req[r].seen) :
                    req[r].seen[i].kind \in {"connect", "cache"} /\ req[r].seen[i].ok

LastToolThrew(r) == ToolAnswers(r) # <<>> /\ ToolAnswers(r)[Len(ToolAnswers(r))].ans.threw

\* the services whose callback has no try/catch around callTool
Uncaught == {"A", "D", "E", "F"}

\* a request that has its response is never touched again
OneResponse == \A r \in Reqs : req[r].pc = "done" => req'[r] = req[r]

\* the statuses as C22 states them: 200 only after an RD value was extracted from a tool answer of the
\* same request, 502 whenever a client was obtained and no RD value was extracted,
\* 500 when connect() threw or AHREFS_MCP_KEY is missing, 400 and no connection
\* without a target.
StatusAsStated ==
    \A r \in Reqs :
        /\ (Served(r) /\ req[r].resp.status = 200) => Extracted(r) /\ ToolAnswers(r) # <<>>
        /\ (Served(r) /\ GotClient(r) /\ ~Extracted(r)) => req[r].resp.status = 502
        /\ (Served(r) /\ (SawFailed(r, "connect") \/ (~mcpKeySet /\ ~req[r].scope.threw
                                                     /\ ~GotClient(r))))
              => req[r].resp.status = 500
        /\ (Authorized(r) /\ ~HasTarget(r)) =>
              /\ req[r].pc = "done" /\ req[r].resp.status = 400
              /\ req[r].seen = <<>> /\ req[r].calls = <<>> /\ clients[r].state = "none"

\* C22 as stated: every authorized request with a target gets at most one
\* response, and its status is the one StatusAsStated names
C22_StatusFollowsOutcome == []StatusAsStated /\ [][OneResponse]_vars

\* the statuses as the handlers give them: an exception of callTool or listTools
\* gives 502 only where the callback catches it (the two chains); elsewhere it
\* reaches the catch block of the handler and gives 500
StatusPerService ==
    \A r \in Reqs :
        /\ (Served(r) /\ req[r].resp.status = 200) =>
              /\ Extracted(r) /\ ToolAnswers(r) # <<>> /\ ~LastToolThrew(r)
              /\ GotClient(r)
        /\ (Served(r) /\ GotClient(r) /\ ~Extracted(r)) =>
              req[r].resp.status = IF SawFailed(r, "list") \/ (variant \in Uncaught /\ LastToolThrew(r))
                                   THEN 500 ELSE 502
        /\ (Served(r) /\ req[r].resp.status = 502) => GotClient(r) /\ ~SawFailed(r, "list")
        /\ (Served(r) /\ (SawFailed(r, "connect") \/ (~mcpKeySet /\ ~req[r].scope.threw
                                                     /\ ~GotClient(r))))
              => req[r].resp.status = 500
        /\ Served(r) => req[r].resp.status \in {200, 502, 500}
        /\ (Authorized(r) /\ ~HasTarget(r)) =>
              /\ req[r].pc = "done" /\ req[r].resp.status = 400
              /\ req[r].seen = <<>> /\ req[r].calls = <<>> /\ clients[r].state = "none"

\* C22 with the 502 case as the code has it: at most one response per request,
\* 200 only with an RD value extracted from an answer of the same request, 500 when
\* no client could be had or an uncaught callTool or listTools threw, 502 for every
\* other request that got a client and no RD value, 400 and no connection without
\* a target
C22_StatusPerService == []StatusPerService /\ [][OneResponse]_vars

\* C22 witness: under part_001 the tool call of a connected request threw and the
\* request was answered 500
C22_Witness ==
    \E r \in Reqs :
        /\ variant = "F" /\ Served(r) /\ GotClient(r)
        /\ LastToolThrew(r) /\ ~Extracted(r)
        /\ req[r].resp.status = 500

(***************************************************************************)
(* Claims about the cached client (SpecShared)                             *)
(***************************************************************************)
\* in this step request r arrives, passes the key check with a target and so calls
\* getMcpClient
CallsGetMcpClient(r) ==
    /\ variant = "A" /\ proxyKeySet
    /\ req[r].pc = "new" /\ req'[r].pc # "new"
    /\ req'[r].inp.key = "match"
    /\ req'[r].inp.target.k = "str" /\ req'[r].inp.target.s # <<>>

\* the call of getMcpClient in this step returned the cache entry: same client, same
\* tool list, no connect() and no listTools()
ReturnsCached(r) ==
    /\ req'[r].client = cached.client
    /\ req'[r].seen # <<>> /\ req'[r].seen[1].kind = "cache"
    /\ req'[r].seen[1].tools = cached.tools
    /\ req'[r].pc \in {"calling", "done"}
    /\ clients' = clients /\ cached' = cached

\* the call of getMcpClient in this step goes on to connect a client of its own
ConnectsAnew(r) ==
    IF mcpKeySet
    THEN /\ req'[r].pc = "connecting" /\ req'[r].client = r /\ req'[r].seen = <<>>
         /\ clients'[r].state = "connecting"
    ELSE req'[r].pc = "done" /\ req'[r].resp.status = 500 /\ clients' = clients

\* in this step the listTools() of request r settles with a list and getMcpClient
\* assigns the cache entry
FillsCache(r) ==
    /\ variant = "A" /\ req[r].pc = "listing" /\ req'[r].pc # "listing"
    /\ req'[r].seen[Len(req'[r].seen)].ok

\* C23 as stated, the 10 minutes counted from the time at which getMcpClient
\* succeeded: a call made less than 10 minutes after the entry was assigned returns
\* it without connect() or listTools(), a call made 10 minutes or more after it
\* connects a new client.
C23_TenMinutesFromSuccess ==
    [][\A r \in Reqs :
          (CallsGetMcpClient(r) /\ cached.client # 0) =>
              IF now - cached.filledAt < CacheTtlMs THEN ReturnsCached(r) ELSE ConnectsAnew(r)]_vars

\* C23 with the 10 minutes counted as the code counts them, from the time the call
\* that filled the entry was entered: a call made while an entry exists whose stamp
\* is less than 10 minutes old returns that entry without connect() or listTools();
\* any other call connects a client of its own, and when its listTools() has
\* settled it replaces the entry by its client, its tool list and the time at which
\* it was entered.
C23_TenMinutesFromEntry ==
    [][\A r \in Reqs :
          /\ CallsGetMcpClient(r) =>
                IF cached.client # 0 /\ now - cached.connectedAt < CacheTtlMs
                THEN ReturnsCached(r) ELSE ConnectsAnew(r)
          /\ FillsCache(r) =>
                /\ cached'.client = r
                /\ cached'.tools = req'[r].seen[Len(req'[r].seen)].tools
                /\ cached'.connectedAt = req[r].startedAt
                /\ req[r].startedAt <= now]_vars

\* C23 witness: an entry assigned less than 10 minutes ago, by a call entered 10
\* minutes ago or more, so that the next call connects again
C23_Witness ==
    /\ variant = "A"
    /\ cached.client # 0
    /\ now - cached.filledAt < CacheTtlMs
    /\ now - cached.connectedAt >= CacheTtlMs
    /\ \E r \in Reqs : r # cached.client /\ req[r].pc = "connecting"

\* the clients that are connected and not closed
OpenClients == {r \in Reqs : clients[r].state = "open"}

\* the clients whose connect() is awaited
ConnectingClients == {r \in Reqs : clients[r].state = "connecting"}

\* C24: in the cached-client variant at most one connected, unclosed MCP client
\* exists at any moment: calls of getMcpClient that overlap do not each open a
\* connection, and a client that was replaced in the cache is closed.
C24_AtMostOneOpenClient ==
    variant = "A" =>
        /\ Cardinality(OpenClients) <= 1
        /\ Cardinality(OpenClients \cup ConnectingClients) <= 1
        /\ \A r \in OpenClients : cached.client \in {0, r}

====
